---- MODULE Spec2Model ----
(***************************************************************************)
(* Model of adi/ad9081.py: the channel-topology discovery of the AD9081     *)
(* binding (_map_to_dict, _sortconv, ad9081.__init__) and its attribute     *)
(* properties.                                                              *)
(*                                                                          *)
(* Strings are modelled by their structure:                                 *)
(*   - a channel id is a record [pre, num, suf] standing for the text       *)
(*     pre \o digits(num) \o suf, e.g. [pre |-> "voltage", num |-> <<1,0>>, *)
(*     suf |-> "_i"] is "voltage10_i";                                      *)
(*   - a label is a sequence of lexemes in which "->" is the separator,     *)
(*     e.g. <<"FDDC0","->","CDDC0","->","ADC","0">> is                      *)
(*     "FDDC0->CDDC0->ADC0"; a token of a split label is a sequence of      *)
(*     lexemes;                                                             *)
(*   - a Python dict is a sequence of [k, v] records with distinct keys,    *)
(*     in insertion order.                                                  *)
(***************************************************************************)
EXTENDS Integers, Sequences, FiniteSets, TLC

VARIABLES
    rxChannels,   \* channel enumeration of device "axi-ad9081-rx-hpc"
    txChannels,   \* channel enumeration of device "axi-ad9081-tx-hpc"
    cls,          \* the class-level list objects of class ad9081
    objs,         \* the objects constructed so far (instance attributes)
    attrs,        \* the device's channel attribute store
    ret,          \* what the last operation returned or raised
    nOps,         \* number of attribute writes done so far
    nInit,        \* number of constructor calls so far
    chans_names   \* the argument of a direct call of _sortconv

vars == <<rxChannels, txChannels, cls, objs, attrs, ret, nOps, nInit, chans_names>>

(***************************************************************************)
(* Bounds                                                                  *)
(***************************************************************************)
MaxSortLen == 4     \* length of the lists given to _sortconv directly
MaxRxCh == 3        \* channels in an rx device enumeration
MaxObjs == 2        \* constructions in one process
MaxOps == 2         \* attribute writes in one run
MaxVal == 1         \* attribute values are 0..MaxVal
MaxTxCh == 3        \* channels of a tx enumeration drawn from TxChannelPool

Range(s) == {s[i] : i \in 1..Len(s)}

SeqsUpTo(S, n) == UNION {[1..k -> S] : k \in 0..n}

NoDup(s) == \A i, j \in 1..Len(s) : i # j => s[i] # s[j]

(***************************************************************************)
(* Text helpers                                                            *)
(***************************************************************************)
\* int(text) of a digit string; -1 stands for ValueError (empty text)
RECURSIVE int(_)
int(d) ==
    IF d = <<>> THEN -1
    ELSE IF Len(d) = 1 THEN d[1]
    ELSE 10 * int(SubSeq(d, 1, Len(d) - 1)) + d[Len(d)]

Id(pre, num, suf) == [pre |-> pre, num |-> num, suf |-> suf]

\* lambda k: "_i" in k
has_i(k) == k.suf = "_i"

\* lambda k: "_q" in k
has_q(k) == k.suf = "_q"

\* int(w[len("voltage") : w.find("_")]); -1 stands for ValueError.
\* Only called on names that contain "_i" or "_q" (or, with dds, on "_q"
\* names), so w.find("_") is the start of the suffix.
ignoreadc_firstdigit(w) ==
    IF w.pre = "voltage" /\ w.suf # "" /\ w.num # <<>> THEN w.num[1] ELSE -1

ignoreadc(w) ==
    IF w.pre = "voltage" /\ w.suf # "" THEN int(w.num) ELSE -1

\* int(w[len("altvoltage") :]); -1 stands for ValueError
ignorealt(w) ==
    IF w.pre = "altvoltage" /\ w.suf = "" THEN int(w.num) ELSE -1

\* filt = ignorealt if dds else ignoreadc
filt(dds, w) == IF dds THEN ignorealt(w) ELSE ignoreadc(w)

\* SelectSeq with the two filters of _sortconv
filter_i(s) == SelectSeq(s, has_i)
filter_q(s) == SelectSeq(s, has_q)

\* sorted(s, key=filt): stable, ascending by key
RECURSIVE InsertSorted(_, _, _)
InsertSorted(s, w, dds) ==
    IF s = <<>> THEN <<w>>
    ELSE IF filt(dds, Head(s)) <= filt(dds, w)
         THEN <<Head(s)>> \o InsertSorted(Tail(s), w, dds)
         ELSE <<w>> \o s

\* a sort that leaves its input as it is
sorted_unsorted(s, dds) == s

RECURSIVE sorted(_, _)
sorted(s, dds) ==
    IF s = <<>> THEN <<>>
    ELSE InsertSorted(sorted(SubSeq(s, 1, Len(s) - 1), dds), s[Len(s)], dds)

\* the key function raises on some element of s
KeyFails(s, dds) == \E i \in 1..Len(s) : filt(dds, s[i]) < 0

\* the loop of _sortconv over range(len(tmpI))
RECURSIVE Interleave(_, _, _, _)
Interleave(tmpI, tmpQ, noq, i) ==
    IF i > Len(tmpI) THEN <<>>
    ELSE (IF noq THEN <<tmpI[i]>> ELSE <<tmpI[i], tmpQ[i]>>)
         \o Interleave(tmpI, tmpQ, noq, i + 1)

\* _sortconv(chans_names, noq, dds): [err, out]
_sortconv(names, noq0, dds) ==
    LET noq  == IF dds THEN TRUE ELSE noq0
        preI == IF dds THEN names ELSE filter_i(names)
        preQ == filter_q(names)
        tmpI == sorted(preI, dds)
        tmpQ == sorted(preQ, dds)
    IN  IF KeyFails(preI, dds) \/ KeyFails(preQ, dds)
        THEN [err |-> "ValueError_int", out |-> <<>>]
        ELSE IF ~noq /\ Len(tmpQ) < Len(tmpI)
        THEN [err |-> "IndexError_sort", out |-> <<>>]
        ELSE [err |-> "none", out |-> Interleave(tmpI, tmpQ, noq, 1)]

(***************************************************************************)
(* Direct calls of the data-channel sort                                   *)
(***************************************************************************)
SortIndices == {<<0>>, <<1>>, <<2>>, <<1, 0>>}

SortNames == {Id("voltage", n, s) : n \in SortIndices, s \in {"_i", "_q"}}

\* the device itself, where an attribute belongs to no channel
NoId == Id("", <<>>, "")

Returned(op, prop, obj, err, out) ==
    [op |-> op, prop |-> prop, obj |-> obj, err |-> err, out |-> out]

NoRet == Returned("none", "", 0, "none", <<>>)

EmptyCls ==
    [_rx_channel_names |-> <<>>,
     _tx_channel_names |-> <<>>,
     _dds_channel_names |-> <<>>,
     _tx_coarse_duc_channel_names |-> <<>>,
     _tx_fine_duc_channel_names |-> <<>>]

InitSort ==
    /\ chans_names \in SeqsUpTo(SortNames, MaxSortLen)
    /\ rxChannels = <<>>
    /\ txChannels = <<>>
    /\ cls = EmptyCls
    /\ objs = <<>>
    /\ attrs = <<>>
    /\ ret = NoRet
    /\ nOps = 0
    /\ nInit = 0

Sortconv ==
    /\ ret.op = "none"
    /\ LET r == _sortconv(chans_names, FALSE, FALSE)
       IN  ret' = Returned("_sortconv", "", 0, r.err, r.out)
    /\ UNCHANGED <<rxChannels, txChannels, cls, objs, attrs, nOps, nInit, chans_names>>

NextSort == Sortconv

SpecSort == InitSort /\ [][NextSort]_vars

(***************************************************************************)
(* Python dicts: sequences of [k, v] in insertion order                    *)
(***************************************************************************)
Keys(d) == {d[i].k : i \in 1..Len(d)}

Get(d, key) == d[CHOOSE i \in 1..Len(d) : d[i].k = key].v

Put(d, key, val) ==
    IF key \in Keys(d)
    THEN [i \in 1..Len(d) |-> IF d[i].k = key THEN [k |-> key, v |-> val] ELSE d[i]]
    ELSE Append(d, [k |-> key, v |-> val])

(***************************************************************************)
(* Labels                                                                  *)
(***************************************************************************)
\* label.split("->"): the tokens between the separators
RECURSIVE split(_)
split(text) ==
    IF \A i \in 1..Len(text) : text[i] # "->" THEN <<text>>
    ELSE LET i == CHOOSE j \in 1..Len(text) :
                     /\ text[j] = "->"
                     /\ \A m \in 1..(j - 1) : text[m] # "->"
         IN  <<SubSeq(text, 1, i - 1)>> \o split(SubSeq(text, i + 1, Len(text)))

\* fddc, cddc, adc = ... : the unpacking raises ValueError unless three tokens
Unpacks(ch) == Len(split(ch.label)) = 3

\* the order in which the three tokens of a label are bound: fddc, cddc, adc
unpack_reversed(ch) ==
    LET t == split(ch.label) IN [fddc |-> t[3], cddc |-> t[2], adc |-> t[1]]

unpack(ch) ==
    LET t == split(ch.label) IN [fddc |-> t[1], cddc |-> t[2], adc |-> t[3]]

\* a leaf that keeps only the latest channel instead of appending
leaf_append_overwrite(leaf, id) == [channels |-> <<id>>]

\* paths[adc][cddc][fddc]["channels"].append(ch._id)
leaf_append(leaf, id) == [channels |-> Append(leaf.channels, id)]

\* _map_to_dict(paths, ch), for a channel whose label unpacks
_map_to_dict(paths, ch) ==
    LET t  == unpack(ch)
        p1 == IF t.adc \notin Keys(paths) THEN Put(paths, t.adc, <<>>) ELSE paths
        a1 == IF t.cddc \notin Keys(Get(p1, t.adc))
              THEN Put(Get(p1, t.adc), t.cddc, <<>>)
              ELSE Get(p1, t.adc)
        c0 == Get(a1, t.cddc)
        c1 == IF t.fddc \notin Keys(c0)
              THEN Put(c0, t.fddc, [channels |-> <<ch.id>>])
              ELSE Put(c0, t.fddc, leaf_append(Get(c0, t.fddc), ch.id))
    IN  Put(p1, t.adc, Put(a1, t.cddc, c1))

\* if "label" in ch.attrs
is_labelled_never(ch) == FALSE

is_labelled(ch) == ch.labelled

\* the loop of __init__ over self._rxadc.channels that builds paths:
\* [err, paths]; the first label that does not unpack raises
RECURSIVE build_paths(_, _, _)
build_paths(paths, chs, i) ==
    IF i > Len(chs) THEN [err |-> "none", paths |-> paths]
    ELSE IF ~is_labelled(chs[i]) THEN build_paths(paths, chs, i + 1)
    ELSE IF ~Unpacks(chs[i]) THEN [err |-> "ValueError_unpack", paths |-> paths]
    ELSE build_paths(_map_to_dict(paths, chs[i]), chs, i + 1)

(***************************************************************************)
(* Construction                                                            *)
(***************************************************************************)
ids(chs) == [i \in 1..Len(chs) |-> chs[i].id]

rx_data(ch) == ch.scan_element /\ ~ch.output

\* a transmit test that also looks at the direction flag
tx_data_output(ch) == ch.scan_element /\ ch.output

tx_data(ch) == ch.scan_element
tx_dds(ch) == ~ch.scan_element

\* channels += paths[converter][cdc][fdc]["channels"] over the fine buckets
RECURSIVE group_channels(_, _)
group_channels(fdcs, i) ==
    IF i > Len(fdcs) THEN <<>>
    ELSE fdcs[i].v.channels \o group_channels(fdcs, i + 1)

\* the (converter, cdc) groups of paths in iteration order, each with its
\* channels filtered to the names containing "_i"
RECURSIVE coarse_groups(_, _)
coarse_groups(converter, cdcs) ==
    IF cdcs = <<>> THEN <<>>
    ELSE <<[converter |-> converter, cdc |-> Head(cdcs).k,
            channels |-> filter_i(group_channels(Head(cdcs).v, 1))]>>
         \o coarse_groups(converter, Tail(cdcs))

RECURSIVE groups(_)
groups(paths) ==
    IF paths = <<>> THEN <<>>
    ELSE coarse_groups(Head(paths).k, Head(paths).v) \o groups(Tail(paths))

\* "ADC" in converter
is_adc_always(converter) == TRUE

is_adc(converter) == \E i \in 1..Len(converter) : converter[i] = "ADC"

\* the entry of a group appended to the coarse list: channels[0]
representative_last(channels) == <<channels[Len(channels)]>>

representative(channels) == <<channels[1]>>

\* a derivation loop that passes over a group with no "_i" name
RECURSIVE derive_skipping(_, _, _)
derive_skipping(d, gs, i) ==
    IF i > Len(gs) THEN d
    ELSE IF gs[i].channels = <<>> THEN derive_skipping(d, gs, i + 1)
    ELSE IF is_adc(gs[i].converter)
    THEN derive_skipping([d EXCEPT !.rx_coarse = @ \o representative(gs[i].channels),
                                   !.rx_fine = @ \o gs[i].channels], gs, i + 1)
    ELSE derive_skipping([d EXCEPT !.tx_coarse = @ \o representative(gs[i].channels),
                                   !.tx_fine = @ \o gs[i].channels], gs, i + 1)

\* the loop of __init__ over the groups: d holds the four lists; an empty
\* filtered group raises IndexError and leaves what was appended before it
RECURSIVE derive(_, _, _)
derive(d, gs, i) ==
    IF i > Len(gs) THEN d
    ELSE IF gs[i].channels = <<>> THEN [d EXCEPT !.err = "IndexError_channels0"]
    ELSE IF is_adc(gs[i].converter)
    THEN derive([d EXCEPT !.rx_coarse = @ \o representative(gs[i].channels),
                          !.rx_fine = @ \o gs[i].channels], gs, i + 1)
    ELSE derive([d EXCEPT !.tx_coarse = @ \o representative(gs[i].channels),
                          !.tx_fine = @ \o gs[i].channels], gs, i + 1)

NoObj ==
    [_path_map |-> <<>>,
     _rx_channel_names |-> <<>>,
     _tx_channel_names |-> <<>>,
     _dds_channel_names |-> <<>>,
     _rx_coarse_ddc_channel_names |-> <<>>,
     _rx_fine_ddc_channel_names |-> <<>>]

\* ad9081.__init__ on class state c with the two enumerations:
\* [err, cls, obj].  The appends go to the class-level lists (the new object
\* has no list of its own yet); the sorted lists and the rx coarse/fine lists
\* become attributes of the object; the tx coarse/fine lists stay the
\* class-level list objects.
__init__(c, rx, tx) ==
    LET built == build_paths(<<>>, rx, 1)
        c1 == [c EXCEPT
                 !._rx_channel_names = @ \o ids(SelectSeq(rx, rx_data)),
                 !._tx_channel_names = @ \o ids(SelectSeq(tx, tx_data)),
                 !._dds_channel_names = @ \o ids(SelectSeq(tx, tx_dds))]
        srx == _sortconv(c1._rx_channel_names, FALSE, FALSE)
        stx == _sortconv(c1._tx_channel_names, FALSE, FALSE)
        sdds == _sortconv(c1._dds_channel_names, FALSE, TRUE)
        d == derive([err |-> "none", rx_coarse |-> <<>>, rx_fine |-> <<>>,
                     tx_coarse |-> c1._tx_coarse_duc_channel_names,
                     tx_fine |-> c1._tx_fine_duc_channel_names],
                    groups(built.paths), 1)
        c2 == [c1 EXCEPT !._tx_coarse_duc_channel_names = d.tx_coarse,
                         !._tx_fine_duc_channel_names = d.tx_fine]
    IN  IF built.err # "none" THEN [err |-> built.err, cls |-> c, obj |-> NoObj]
        ELSE IF srx.err # "none" THEN [err |-> srx.err, cls |-> c1, obj |-> NoObj]
        ELSE IF stx.err # "none" THEN [err |-> stx.err, cls |-> c1, obj |-> NoObj]
        ELSE IF sdds.err # "none" THEN [err |-> sdds.err, cls |-> c1, obj |-> NoObj]
        ELSE IF d.err # "none" THEN [err |-> d.err, cls |-> c2, obj |-> NoObj]
        ELSE [err |-> "none", cls |-> c2,
              obj |-> [_path_map |-> built.paths,
                       _rx_channel_names |-> srx.out,
                       _tx_channel_names |-> stx.out,
                       _dds_channel_names |-> sdds.out,
                       _rx_coarse_ddc_channel_names |-> d.rx_coarse,
                       _rx_fine_ddc_channel_names |-> d.rx_fine]]

(***************************************************************************)
(* Device enumerations                                                     *)
(***************************************************************************)
Ch(id, output, scan, labelled, label) ==
    [id |-> id, output |-> output, scan_element |-> scan,
     labelled |-> labelled, label |-> label]

L_F0_C0_ADC0 == <<"FDDC0", "->", "CDDC0", "->", "ADC", "0">>
L_F1_C0_ADC0 == <<"FDDC1", "->", "CDDC0", "->", "ADC", "0">>
L_F0_C0_DAC0 == <<"FDUC0", "->", "CDUC0", "->", "DAC", "0">>
L_F1_C1_DAC0 == <<"FDUC1", "->", "CDUC1", "->", "DAC", "0">>
L_TwoTokens  == <<"FDDC0", "->", "CDDC0">>

v0_i == Id("voltage", <<0>>, "_i")
v0_q == Id("voltage", <<0>>, "_q")
v1_i == Id("voltage", <<1>>, "_i")
v1_q == Id("voltage", <<1>>, "_q")
v2_i == Id("voltage", <<2>>, "_i")
v2_q == Id("voltage", <<2>>, "_q")
alt0 == Id("altvoltage", <<0>>, "")
alt1 == Id("altvoltage", <<1>>, "")

RxChannelPool ==
    {Ch(v0_i, FALSE, TRUE, TRUE, L_F0_C0_ADC0),
     Ch(v0_q, FALSE, TRUE, TRUE, L_F0_C0_ADC0),
     Ch(v1_i, FALSE, FALSE, TRUE, L_F1_C0_ADC0),
     Ch(v1_q, FALSE, TRUE, TRUE, L_F1_C0_ADC0),
     Ch(v0_i, TRUE, FALSE, TRUE, L_F0_C0_DAC0),
     Ch(v1_i, TRUE, FALSE, TRUE, L_F1_C1_DAC0),
     Ch(v2_i, TRUE, FALSE, FALSE, <<>>),
     Ch(v2_q, FALSE, FALSE, TRUE, L_TwoTokens)}

\* the tx device: none, its data pair, the data pair and a DDS channel, an
\* "_i" data channel without its "_q", or a non-scan channel named as a data
\* channel
TxEnumerations ==
    {<<>>,
     <<Ch(v0_q, TRUE, TRUE, FALSE, <<>>), Ch(v0_i, TRUE, TRUE, FALSE, <<>>)>>,
     <<Ch(alt0, TRUE, FALSE, FALSE, <<>>), Ch(v0_i, TRUE, TRUE, FALSE, <<>>),
       Ch(v0_q, TRUE, TRUE, FALSE, <<>>)>>,
     <<Ch(v0_i, TRUE, TRUE, FALSE, <<>>)>>,
     <<Ch(v0_i, TRUE, FALSE, FALSE, <<>>)>>}

\* a device lists a channel (id, direction) once
Enumeration(s) ==
    \A i, j \in 1..Len(s) :
        i # j => <<s[i].id, s[i].output>> # <<s[j].id, s[j].output>>

RxEnumerations == {s \in SeqsUpTo(RxChannelPool, MaxRxCh) : Enumeration(s)}

InitTopo ==
    /\ rxChannels \in RxEnumerations
    /\ txChannels \in TxEnumerations
    /\ cls = EmptyCls
    /\ objs = <<>>
    /\ attrs = <<>>
    /\ ret = NoRet
    /\ nOps = 0
    /\ nInit = 0
    /\ chans_names = <<>>

\* dev = adi.ad9081(uri)
Construct ==
    /\ nInit < MaxObjs
    /\ LET r == __init__(cls, rxChannels, txChannels)
       IN  /\ cls' = r.cls
           /\ objs' = IF r.err = "none" THEN Append(objs, r.obj) ELSE objs
           /\ ret' = Returned("__init__", "", Len(objs'), r.err, <<>>)
    /\ nInit' = nInit + 1
    /\ UNCHANGED <<rxChannels, txChannels, attrs, nOps, chans_names>>

\* dev.path_map
PathMap ==
    /\ \E o \in 1..Len(objs) :
          ret' = Returned("get", "path_map", o, "none", objs[o]._path_map)
    /\ UNCHANGED <<rxChannels, txChannels, cls, objs, attrs, nOps, nInit, chans_names>>

NextTopo == Construct \/ PathMap

SpecTopo == InitTopo /\ [][NextTopo]_vars

(***************************************************************************)
(* Attribute access: the helpers of adi/attribute.py that the properties   *)
(* call, modelled from the description of the scalar and vectorized get    *)
(* and set (read or write one attribute of one channel per name, in list   *)
(* order)                                                                  *)
(***************************************************************************)
Values == 0..MaxVal

Key(name, attr, output) == <<name, attr, output>>

\* what the device holds for a key; an attribute never written reads 0
_get_iio_attr(a, name, attr, output) ==
    IF Key(name, attr, output) \in DOMAIN a THEN a[Key(name, attr, output)] ELSE 0

_set_iio_attr(a, name, attr, output, value) ==
    [k \in DOMAIN a \cup {Key(name, attr, output)} |->
        IF k = Key(name, attr, output) THEN value ELSE a[k]]

\* read the attribute of each name of the list, in list order
_get_iio_attr_vec(a, names, attr, output) ==
    [i \in 1..Len(names) |-> _get_iio_attr(a, names[i], attr, output)]

\* write value[i] to names[i], in list order
RECURSIVE _set_iio_attr_vec(_, _, _, _, _, _)
_set_iio_attr_vec(a, names, attr, output, value, i) ==
    IF i > Len(names) THEN a
    ELSE _set_iio_attr_vec(_set_iio_attr(a, names[i], attr, output, value[i]),
                           names, attr, output, value, i + 1)

(***************************************************************************)
(* The properties of ad9081                                                *)
(***************************************************************************)
VecProps ==
    {"rx_channel_nco_frequencies", "rx_channel_nco_phases",
     "rx_main_nco_frequencies", "rx_main_nco_phases",
     "tx_channel_nco_frequencies", "tx_channel_nco_phases",
     "tx_main_nco_frequencies", "tx_main_nco_phases"}

Arg(list, attr, output) == [list |-> list, attr |-> attr, output |-> output]

\* the name list, attribute and direction each vectorized getter passes
vec_getter(p) ==
    CASE p = "rx_channel_nco_frequencies" -> Arg("rx_fine", "channel_nco_frequency", FALSE)
      [] p = "rx_channel_nco_phases"      -> Arg("rx_fine", "channel_nco_phase", FALSE)
      [] p = "rx_main_nco_frequencies"    -> Arg("rx_coarse", "main_nco_frequency", FALSE)
      [] p = "rx_main_nco_phases"         -> Arg("rx_coarse", "main_nco_phase", FALSE)
      [] p = "tx_channel_nco_frequencies" -> Arg("tx_fine", "channel_nco_frequency", TRUE)
      [] p = "tx_channel_nco_phases"      -> Arg("tx_fine", "channel_nco_phase", TRUE)
      [] p = "tx_main_nco_frequencies"    -> Arg("tx_coarse", "main_nco_frequency", TRUE)
      [] p = "tx_main_nco_phases"         -> Arg("tx_coarse", "main_nco_phase", TRUE)

\* the name list, attribute and direction each vectorized setter passes
vec_setter(p) ==
    CASE p = "rx_channel_nco_frequencies" -> Arg("rx_fine", "channel_nco_frequency", FALSE)
      [] p = "rx_channel_nco_phases"      -> Arg("rx_fine", "channel_nco_phase", FALSE)
      [] p = "rx_main_nco_frequencies"    -> Arg("rx_coarse", "main_nco_frequency", FALSE)
      [] p = "rx_main_nco_phases"         -> Arg("rx_coarse", "main_nco_phase", FALSE)
      [] p = "tx_channel_nco_frequencies" -> Arg("tx_fine", "channel_nco_frequency", TRUE)
      [] p = "tx_channel_nco_phases"      -> Arg("tx_fine", "channel_nco_phase", TRUE)
      [] p = "tx_main_nco_frequencies"    -> Arg("tx_coarse", "main_nco_frequency", TRUE)
      [] p = "tx_main_nco_phases"         -> Arg("tx_coarse", "main_nco_phase", TRUE)

\* the list of object o a property addresses; c is the class state, which
\* holds the list objects of the two tx lists
names_of(o, c, list) ==
    CASE list = "rx_fine"   -> o._rx_fine_ddc_channel_names
      [] list = "rx_coarse" -> o._rx_coarse_ddc_channel_names
      [] list = "tx_fine"   -> c._tx_fine_duc_channel_names
      [] list = "tx_coarse" -> c._tx_coarse_duc_channel_names

\* scalar properties read with _get_iio_attr / _get_iio_attr_str on the fixed
\* channel "voltage0_i"; loopback_mode is a device attribute
ScalarProps ==
    {"rx_test_mode", "rx_nyquist_zone", "tx_main_ffh_frequency",
     "tx_main_ffh_index", "tx_main_ffh_mode", "loopback_mode",
     "rx_sampling_frequency", "adc_frequency", "tx_sampling_frequency",
     "dac_frequency"}

\* scalar properties with a setter that only writes
PlainSetProps ==
    {"rx_test_mode", "rx_nyquist_zone", "tx_main_ffh_index",
     "tx_main_ffh_mode", "loopback_mode"}

Scalar(name, attr, output) == [name |-> name, attr |-> attr, output |-> output]

scalar(p) ==
    CASE p = "rx_test_mode"          -> Scalar(v0_i, "test_mode", FALSE)
      [] p = "rx_nyquist_zone"       -> Scalar(v0_i, "nyquist_zone", FALSE)
      [] p = "tx_main_ffh_frequency" -> Scalar(v0_i, "main_ffh_frequency", TRUE)
      [] p = "tx_main_ffh_index"     -> Scalar(v0_i, "main_ffh_index", TRUE)
      [] p = "tx_main_ffh_mode"      -> Scalar(v0_i, "main_ffh_mode", TRUE)
      [] p = "loopback_mode"         -> Scalar(NoId, "loopback_mode", FALSE)
      [] p = "rx_sampling_frequency" -> Scalar(v0_i, "sampling_frequency", FALSE)
      [] p = "adc_frequency"         -> Scalar(v0_i, "adc_frequency", FALSE)
      [] p = "tx_sampling_frequency" -> Scalar(v0_i, "sampling_frequency", TRUE)
      [] p = "dac_frequency"         -> Scalar(v0_i, "dac_frequency", TRUE)

scalar_get(a, p) == _get_iio_attr(a, scalar(p).name, scalar(p).attr, scalar(p).output)

scalar_set(a, p, value) ==
    _set_iio_attr(a, scalar(p).name, scalar(p).attr, scalar(p).output, value)

\* the guard of the tx_main_ffh_frequency setter: self.tx_main_ffh_index == 0
ffh_guard_never(a) == FALSE

ffh_guard(a) == scalar_get(a, "tx_main_ffh_index") = 0

\* value = dev.<vectorized property>
VecGet ==
    /\ \E o \in 1..Len(objs), p \in VecProps :
          ret' = Returned("get", p, o, "none",
                          _get_iio_attr_vec(attrs, names_of(objs[o], cls, vec_getter(p).list),
                                            vec_getter(p).attr, vec_getter(p).output))
    /\ UNCHANGED <<rxChannels, txChannels, cls, objs, attrs, nOps, nInit, chans_names>>

\* dev.<vectorized property> = value, with len(value) the length of the list
VecSet ==
    /\ nOps < MaxOps
    /\ \E o \in 1..Len(objs), p \in VecProps :
          LET names == names_of(objs[o], cls, vec_setter(p).list)
          IN  \E value \in [1..Len(names) -> Values] :
                 /\ attrs' = _set_iio_attr_vec(attrs, names, vec_setter(p).attr,
                                               vec_setter(p).output, value, 1)
                 /\ ret' = Returned("set", p, o, "none", value)
    /\ nOps' = nOps + 1
    /\ UNCHANGED <<rxChannels, txChannels, cls, objs, nInit, chans_names>>

\* value = dev.<scalar property>, for the properties P
ScalarGetOf(P) ==
    /\ \E o \in 1..Len(objs), p \in P :
          ret' = Returned("get", p, o, "none", scalar_get(attrs, p))
    /\ UNCHANGED <<rxChannels, txChannels, cls, objs, attrs, nOps, nInit, chans_names>>

ScalarGet == ScalarGetOf(ScalarProps)

\* dev.<scalar property> = value, for the setters P that only write
ScalarSetOf(P) ==
    /\ nOps < MaxOps
    /\ \E o \in 1..Len(objs), p \in P, value \in Values :
          /\ attrs' = scalar_set(attrs, p, value)
          /\ ret' = Returned("set", p, o, "none", value)
    /\ nOps' = nOps + 1
    /\ UNCHANGED <<rxChannels, txChannels, cls, objs, nInit, chans_names>>

ScalarSet == ScalarSetOf(PlainSetProps)

\* dev.tx_main_ffh_frequency = value
FfhFrequencySet ==
    /\ nOps < MaxOps
    /\ \E o \in 1..Len(objs), value \in Values :
          IF ffh_guard(attrs)
          THEN /\ attrs' = attrs
               /\ ret' = Returned("set", "tx_main_ffh_frequency", o, "Exception", value)
          ELSE /\ attrs' = scalar_set(attrs, "tx_main_ffh_frequency", value)
               /\ ret' = Returned("set", "tx_main_ffh_frequency", o, "none", value)
    /\ nOps' = nOps + 1
    /\ UNCHANGED <<rxChannels, txChannels, cls, objs, nInit, chans_names>>

\* the rx device of an AD9081: its data pair, a second fine channel, and the
\* transmit path's channel of the same name
FacadeRx ==
    {<<Ch(v0_i, FALSE, TRUE, TRUE, L_F0_C0_ADC0),
       Ch(v0_q, FALSE, TRUE, TRUE, L_F0_C0_ADC0),
       Ch(v0_i, TRUE, FALSE, TRUE, L_F0_C0_DAC0)>>,
     <<Ch(v0_q, FALSE, TRUE, TRUE, L_F0_C0_ADC0),
       Ch(v1_i, FALSE, FALSE, TRUE, L_F1_C0_ADC0),
       Ch(v0_i, FALSE, TRUE, TRUE, L_F0_C0_ADC0)>>}

FacadeTx ==
    {<<Ch(alt0, TRUE, FALSE, FALSE, <<>>), Ch(v0_i, TRUE, TRUE, FALSE, <<>>),
       Ch(v0_q, TRUE, TRUE, FALSE, <<>>)>>}

Init ==
    /\ rxChannels \in FacadeRx
    /\ txChannels \in FacadeTx
    /\ cls = EmptyCls
    /\ objs = <<>>
    /\ attrs = <<>>
    /\ ret = NoRet
    /\ nOps = 0
    /\ nInit = 0
    /\ chans_names = <<>>

Next ==
    \/ Construct
    \/ PathMap
    \/ VecGet
    \/ VecSet
    \/ ScalarGet
    \/ ScalarSet
    \/ FfhFrequencySet

Spec == Init /\ [][Next]_vars

(***************************************************************************)
(* The frequency-hop controls alone                                        *)
(***************************************************************************)
FfhProps == {"tx_main_ffh_index", "tx_main_ffh_frequency"}

\* dev.tx_main_ffh_index = value
FfhIndexSet == ScalarSetOf({"tx_main_ffh_index"})

\* dev.tx_main_ffh_index, dev.tx_main_ffh_frequency
FfhGet == ScalarGetOf(FfhProps)

InitFfh ==
    /\ rxChannels \in FacadeRx
    /\ txChannels \in TxEnumerations
    /\ cls = EmptyCls
    /\ objs = <<>>
    /\ attrs = <<>>
    /\ ret = NoRet
    /\ nOps = 0
    /\ nInit = 0
    /\ chans_names = <<>>

NextFfh == Construct \/ FfhIndexSet \/ FfhFrequencySet \/ FfhGet

SpecFfh == InitFfh /\ [][NextFfh]_vars

(***************************************************************************)
(* Construction over tx devices whose channels vary in both flags          *)
(***************************************************************************)
\* channels a tx device may list: the data pair as outputs, the same names
\* as inputs, and a tone generator in either direction
TxChannelPool ==
    {Ch(v0_i, TRUE, TRUE, FALSE, <<>>),
     Ch(v0_q, TRUE, TRUE, FALSE, <<>>),
     Ch(v0_i, FALSE, TRUE, FALSE, <<>>),
     Ch(alt0, TRUE, FALSE, FALSE, <<>>),
     Ch(alt1, FALSE, FALSE, FALSE, <<>>)}

TxClassifyEnumerations == {s \in SeqsUpTo(TxChannelPool, MaxTxCh) : Enumeration(s)}

\* rx devices that also list an output scan channel and an input non-scan
\* channel
RxClassifyEnumerations ==
    FacadeRx \cup
    {<<Ch(v0_i, FALSE, TRUE, TRUE, L_F0_C0_ADC0),
       Ch(v1_i, TRUE, TRUE, FALSE, <<>>),
       Ch(v1_q, FALSE, FALSE, FALSE, <<>>),
       Ch(v0_q, FALSE, TRUE, TRUE, L_F0_C0_ADC0)>>,
     <<Ch(v1_q, FALSE, TRUE, FALSE, <<>>),
       Ch(v0_q, FALSE, TRUE, TRUE, L_F0_C0_ADC0),
       Ch(v0_i, FALSE, TRUE, TRUE, L_F0_C0_ADC0)>>}

InitClassify ==
    /\ rxChannels \in RxClassifyEnumerations
    /\ txChannels \in TxClassifyEnumerations
    /\ cls = EmptyCls
    /\ objs = <<>>
    /\ attrs = <<>>
    /\ ret = NoRet
    /\ nOps = 0
    /\ nInit = 0
    /\ chans_names = <<>>

NextClassify == Construct

SpecClassify == InitClassify /\ [][NextClassify]_vars

(***************************************************************************)
(* Claims about the data-channel sort                                      *)
(***************************************************************************)
Partner(w) == Id(w.pre, w.num, IF w.suf = "_i" THEN "_q" ELSE "_i")

\* a set of names in which every index present has both its _i and its _q
CompletePairs(s) == NoDup(s) /\ \A i \in 1..Len(s) : Partner(s[i]) \in Range(s)

\* the list built from the set of names alone: lowest index first, _i then _q
RECURSIVE PairsAscending(_)
PairsAscending(S) ==
    IF S = {} THEN <<>>
    ELSE LET m == CHOOSE w \in S :
                     /\ w.suf = "_i"
                     /\ \A v \in S : int(w.num) <= int(v.num)
         IN  <<m, Partner(m)>> \o PairsAscending(S \ {m, Partner(m)})

\* C2: for a set of data channel names in which every index has both its _i
\* and its _q name, _sortconv returns, whatever the order of the input, the
\* permutation of the input with the indices ascending by numeric value and
\* each _i name immediately followed by its _q name.
C2_SortOrderIndependent ==
    (ret.op = "_sortconv" /\ CompletePairs(chans_names)) =>
        /\ ret.err = "none"
        /\ Len(ret.out) = Len(chans_names)
        /\ Range(ret.out) = Range(chans_names)
        /\ ret.out = PairsAscending(Range(chans_names))

C2_Witness ==
    /\ ret.op = "_sortconv"
    /\ CompletePairs(chans_names)
    /\ Len(chans_names) = 4
    /\ chans_names[1] = Id("voltage", <<1, 0>>, "_q")
    /\ Id("voltage", <<2>>, "_i") \in Range(chans_names)
    /\ ret.out[1] = Id("voltage", <<2>>, "_i")
    /\ ret.out[3] = Id("voltage", <<1, 0>>, "_i")

\* position 2k-1 holds an _i name, position 2k the _q name of the same
\* numeric index, and the pair indices ascend
Paired(out) ==
    /\ Len(out) % 2 = 0
    /\ \A k \in 1..(Len(out) \div 2) :
          /\ out[2 * k - 1].suf = "_i"
          /\ out[2 * k].suf = "_q"
          /\ int(out[2 * k - 1].num) = int(out[2 * k].num)
          /\ k > 1 => int(out[2 * k - 3].num) <= int(out[2 * k - 1].num)

Count(s, suf, n) ==
    Cardinality({i \in 1..Len(s) : s[i].suf = suf /\ int(s[i].num) = n})

\* every index occurs as often among the _i names as among the _q names
SameIndexCounts(s) ==
    \A i \in 1..Len(s) :
        Count(s, "_i", int(s[i].num)) = Count(s, "_q", int(s[i].num))

\* C10 as stated: every list _sortconv returns is paired, whatever the
\* indices present in the _i and _q partitions of the input.
C10_PairedForAnyInput ==
    (ret.op = "_sortconv" /\ ret.err = "none") => Paired(ret.out)

\* C10 as amended: when every index occurs as often among the _i names as
\* among the _q names of the input, _sortconv returns a list of the input's
\* length in which position 2k-1 holds an _i name, position 2k the _q name of
\* the same index, and the pair indices ascend.
C10_PairedWhenPartitionsMatch ==
    (ret.op = "_sortconv" /\ SameIndexCounts(chans_names)) =>
        /\ ret.err = "none"
        /\ Len(ret.out) = Len(chans_names)
        /\ Paired(ret.out)

C10_Witness ==
    /\ ret.op = "_sortconv"
    /\ SameIndexCounts(chans_names)
    /\ Len(chans_names) = 4
    /\ chans_names[1].suf = "_q"
    /\ chans_names[2].suf = "_q"
    /\ int(chans_names[1].num) > int(chans_names[2].num)
    /\ ret.err = "none"
    /\ Paired(ret.out)

(***************************************************************************)
(* Claims about the path map and the derived lists                         *)
(***************************************************************************)
Last(s) == s[Len(s)]

\* a constructor call has just returned without raising
Constructed == nInit' = nInit + 1 /\ ret'.err = "none"

\* the leaves of a path map, each with the three keys that lead to it
Leaves(m) ==
    UNION {UNION {{[adc |-> m[a].k, cddc |-> m[a].v[c].k, fddc |-> m[a].v[c].v[f].k,
                    channels |-> m[a].v[c].v[f].v.channels] :
                        f \in 1..Len(m[a].v[c].v)} :
                  c \in 1..Len(m[a].v)} :
           a \in 1..Len(m)}

\* the (converter, coarse, fine) triples under which id is listed
TriplesOf(m, id) ==
    {<<l.adc, l.cddc, l.fddc>> : l \in {x \in Leaves(m) : id \in Range(x.channels)}}

\* how many leaf entries of the map are id
Occurrences(m, id) ==
    Cardinality(UNION {{<<l, i>> : i \in {j \in 1..Len(l.channels) : l.channels[j] = id}} :
                       l \in Leaves(m)})

\* the triple a label "fine->coarse->converter" names, outermost key first
TripleOfLabel(ch) == LET t == split(ch.label) IN <<t[3], t[2], t[1]>>

Labelled == {i \in 1..Len(rxChannels) : rxChannels[i].labelled}

WellFormed(ch) == Len(split(ch.label)) = 3

ContainsADC(converter) == "ADC" \in Range(converter)

FromADC(g) == ContainsADC(g.converter)
NotFromADC(g) == ~ContainsADC(g.converter)

\* the first entry of each group, and all entries of all groups, in order
RECURSIVE Firsts(_)
Firsts(gs) == IF gs = <<>> THEN <<>> ELSE <<Head(gs).channels[1]>> \o Firsts(Tail(gs))

RECURSIVE All(_)
All(gs) == IF gs = <<>> THEN <<>> ELSE Head(gs).channels \o All(Tail(gs))

\* C3 as stated: the coarse list of a constructed object has exactly one
\* entry per (converter, coarse) group, the group's first _i identifier, and
\* the fine list the _i identifiers of the map, one entry each, on the
\* receive side and on the transmit side.
C3_OneEntryPerCoarseGroup ==
    \A o \in 1..Len(objs) :
        LET gs == groups(objs[o]._path_map)
        IN  /\ objs[o]._rx_coarse_ddc_channel_names = Firsts(SelectSeq(gs, FromADC))
            /\ objs[o]._rx_fine_ddc_channel_names = All(SelectSeq(gs, FromADC))
            /\ names_of(objs[o], cls, "tx_coarse") = Firsts(SelectSeq(gs, NotFromADC))
            /\ names_of(objs[o], cls, "tx_fine") = All(SelectSeq(gs, NotFromADC))

\* C4: a construction gives the entries of the groups whose converter key
\* contains "ADC" to the receive-side lists only, and the entries of the other
\* groups to the transmit-side lists only, each group to exactly one side.
C4_RoutingByConverterKey ==
    [][Constructed =>
          LET o  == Last(objs')
              gs == groups(o._path_map)
              rx == SelectSeq(gs, FromADC)
              tx == SelectSeq(gs, NotFromADC)
          IN  /\ o._rx_coarse_ddc_channel_names = Firsts(rx)
              /\ o._rx_fine_ddc_channel_names = All(rx)
              /\ cls'._tx_coarse_duc_channel_names
                    = cls._tx_coarse_duc_channel_names \o Firsts(tx)
              /\ cls'._tx_fine_duc_channel_names
                    = cls._tx_fine_duc_channel_names \o All(tx)
              /\ Len(rx) + Len(tx) = Len(gs)]_vars

C4_Witness ==
    /\ objs # <<>>
    /\ \E g \in Range(groups(objs[1]._path_map)) : ContainsADC(g.converter)
    /\ \E g \in Range(groups(objs[1]._path_map)) : ~ContainsADC(g.converter)
    /\ objs[1]._rx_coarse_ddc_channel_names # <<>>
    /\ cls._tx_coarse_duc_channel_names # <<>>

\* C5: in the path map of a constructed object the leaf at
\* map[converter][coarse][fine] of a label "fine->coarse->converter" holds the
\* identifiers of all channels carrying that label, in enumeration order, and
\* the map has no other leaf, so an unlabelled channel contributes nothing.
C5_LeafPerLabel ==
    \A o \in 1..Len(objs) :
        LET m == objs[o]._path_map
        IN  /\ \A i \in Labelled :
                  LET ch == rxChannels[i]
                      t  == split(ch.label)
                      same(c) == c.labelled /\ c.label = ch.label
                  IN  [adc |-> t[3], cddc |-> t[2], fddc |-> t[1],
                       channels |-> ids(SelectSeq(rxChannels, same))] \in Leaves(m)
            /\ \A l \in Leaves(m) :
                  \E i \in Labelled :
                      TripleOfLabel(rxChannels[i]) = <<l.adc, l.cddc, l.fddc>>

C5_Witness ==
    /\ objs # <<>>
    /\ \E i, j \in Labelled : i < j /\ rxChannels[i].label = rxChannels[j].label
                                    /\ rxChannels[i].id = v0_q
    /\ \E i \in 1..Len(rxChannels) : ~rxChannels[i].labelled
    /\ \E l \in Leaves(objs[1]._path_map) : l.channels = <<v0_q, v0_i>>

\* C6 as stated: in the path map of every constructed object no identifier
\* is listed under two different (converter, coarse, fine) triples.
C6_IdentifierInOneLeaf ==
    \A o \in 1..Len(objs) :
        \A id \in Range(ids(rxChannels)) :
            Cardinality(TriplesOf(objs[o]._path_map, id)) <= 1

\* C6 as amended: every labelled channel of the enumeration is listed in
\* exactly one leaf, the one its label names: an identifier is listed under
\* the triples of the labels of the channels that carry it, once per such
\* channel, so under one triple only if those channels share one label.
C6_LeafPerLabelledChannel ==
    \A o \in 1..Len(objs) :
        \A id \in Range(ids(rxChannels)) :
            /\ TriplesOf(objs[o]._path_map, id)
                  = {TripleOfLabel(rxChannels[i]) :
                        i \in {j \in Labelled : rxChannels[j].id = id}}
            /\ Occurrences(objs[o]._path_map, id)
                  = Cardinality({j \in Labelled : rxChannels[j].id = id})

C6_Witness ==
    /\ objs # <<>>
    /\ Cardinality(TriplesOf(objs[1]._path_map, v0_i)) = 2
    /\ Cardinality(TriplesOf(objs[1]._path_map, v0_q)) = 1

\* C9 as stated: with a channel whose label is absent or does not split
\* into three tokens, construction does not raise at the label.
C9_MalformedLabelSkipped ==
    ret.op = "__init__" => ret.err # "ValueError_unpack"

\* C9 as amended: a channel without a label is left out of the path map
\* and construction goes on; a labelled channel whose label does not split
\* into three tokens makes the constructor raise ValueError, no object results
\* and the class-level lists are untouched; the path map of a constructed
\* object lists exactly the labelled channels.
C9_AbsentSkippedMalformedRaises ==
    /\ ret.op = "__init__" =>
          /\ ret.err = "ValueError_unpack"
                <=> \E i \in Labelled : ~WellFormed(rxChannels[i])
          /\ ret.err = "ValueError_unpack" => objs = <<>> /\ cls = EmptyCls
    /\ \A o \in 1..Len(objs) :
          /\ \A i \in Labelled : WellFormed(rxChannels[i])
          /\ UNION {Range(l.channels) : l \in Leaves(objs[o]._path_map)}
                = {rxChannels[i].id : i \in Labelled}

C9_Witness ==
    /\ ret.op = "__init__"
    /\ ret.err = "ValueError_unpack"
    /\ \E i \in 1..Len(rxChannels) : ~rxChannels[i].labelled
    /\ objs = <<>>

(***************************************************************************)
(* Claims about the properties                                             *)
(***************************************************************************)
\* what main_ffh_index of output channel voltage0_i reads
IndexReads(a) == _get_iio_attr(a, v0_i, "main_ffh_index", TRUE)

FfhFrequencyKey == Key(v0_i, "main_ffh_frequency", TRUE)

\* C1: a set of tx_main_ffh_frequency while main_ffh_index of output
\* channel voltage0_i reads 0 raises and leaves the device as it was; when the
\* index reads non-zero the set writes the value to main_ffh_frequency and
\* nothing else.
C1_FfhFrequencyNeedsIndex ==
    [][(nOps' = nOps + 1 /\ ret'.op = "set" /\ ret'.prop = "tx_main_ffh_frequency") =>
          IF IndexReads(attrs) = 0
          THEN ret'.err = "Exception" /\ attrs' = attrs
          ELSE /\ ret'.err = "none"
               /\ DOMAIN attrs' = DOMAIN attrs \cup {FfhFrequencyKey}
               /\ attrs'[FfhFrequencyKey] = ret'.out
               /\ \A k \in DOMAIN attrs \ {FfhFrequencyKey} : attrs'[k] = attrs[k]]_vars

C1_Witness ==
    /\ ret.op = "set"
    /\ ret.prop = "tx_main_ffh_frequency"
    /\ ret.err = "Exception"
    /\ Key(v0_i, "main_ffh_index", TRUE) \in DOMAIN attrs
    /\ FfhFrequencyKey \notin DOMAIN attrs

\* the path map and the seven name lists object i presents
ObjView(os, c, i) ==
    [path_map |-> os[i]._path_map,
     rx |-> os[i]._rx_channel_names,
     tx |-> os[i]._tx_channel_names,
     dds |-> os[i]._dds_channel_names,
     rx_coarse |-> names_of(os[i], c, "rx_coarse"),
     rx_fine |-> names_of(os[i], c, "rx_fine"),
     tx_coarse |-> names_of(os[i], c, "tx_coarse"),
     tx_fine |-> names_of(os[i], c, "tx_fine")]

\* C7 as stated: no operation changes the path map or a derived name list
\* of an object constructed before it.
C7_ListsFixedAfterConstruction ==
    [][\A i \in 1..Len(objs) : ObjView(objs', cls', i) = ObjView(objs, cls, i)]_vars

\* C8 as stated: after a vectorized set of a value as long as the name
\* list, the get of the same property returns a sequence of that length whose
\* i-th element is what the set wrote at position i.
C8_VecSetThenGet ==
    (ret.op = "set" /\ ret.prop \in VecProps) =>
        LET g == vec_getter(ret.prop)
            got == _get_iio_attr_vec(attrs, names_of(objs[ret.obj], cls, g.list),
                                     g.attr, g.output)
        IN  /\ Len(got) = Len(ret.out)
            /\ \A i \in 1..Len(got) : got[i] = ret.out[i]


(***************************************************************************)
(* Claims about the classification of the channels                         *)
(***************************************************************************)
\* the identifiers of the channels of an enumeration that pass a test
IdsWhere(chs, T(_)) == {chs[i].id : i \in {j \in 1..Len(chs) : T(chs[j])}}

ScanInput(ch) == ch.scan_element /\ ~ch.output
ScanOutput(ch) == ch.scan_element /\ ch.output
NonScanOutput(ch) == ~ch.scan_element /\ ch.output
NonOutput(ch) == ~ch.output
Output(ch) == ch.output
Scan(ch) == ch.scan_element
NonScan(ch) == ~ch.scan_element

\* the identifiers that only non-output channels of the tx device carry
OnlyNonOutputTx ==
    IdsWhere(txChannels, NonOutput) \ IdsWhere(txChannels, Output)

\* as many "_q" entries as "_i" entries
Balanced(s) == Len(filter_i(s)) = Len(filter_q(s))

\* C11 as stated: in every constructed object the receive data list holds
\* exactly the scan-eligible non-output channels of the receive device, the
\* transmit data list exactly the scan-eligible output channels of the
\* transmit device, the DDS list exactly the non-scan-eligible output
\* channels of the transmit device, and a non-output channel of the transmit
\* device is in neither transmit list.
C11_ClassifiedByScanAndDirection ==
    \A o \in 1..Len(objs) :
        /\ Range(objs[o]._rx_channel_names) = IdsWhere(rxChannels, ScanInput)
        /\ Range(objs[o]._tx_channel_names) = IdsWhere(txChannels, ScanOutput)
        /\ Range(objs[o]._dds_channel_names) = IdsWhere(txChannels, NonScanOutput)
        /\ OnlyNonOutputTx \cap (Range(objs[o]._tx_channel_names)
                                 \cup Range(objs[o]._dds_channel_names)) = {}

\* C11: in every constructed object the receive data list holds only
\* scan-eligible non-output channels of the receive device and all of them
\* that are "_i" channels; the transmit data list holds only scan-eligible
\* channels of the transmit device, of either direction, and all of them that
\* are "_i" channels; both lists hold as many "_q" as "_i" entries; the DDS
\* list holds the non-scan-eligible channels of the transmit device, of
\* either direction, and nothing else.
C11_ClassifiedByScanOnTx ==
    \A o \in 1..Len(objs) :
        /\ Range(objs[o]._rx_channel_names) \subseteq IdsWhere(rxChannels, ScanInput)
        /\ {k \in IdsWhere(rxChannels, ScanInput) : has_i(k)}
               \subseteq Range(objs[o]._rx_channel_names)
        /\ Balanced(objs[o]._rx_channel_names)
        /\ Range(objs[o]._tx_channel_names) \subseteq IdsWhere(txChannels, Scan)
        /\ {k \in IdsWhere(txChannels, Scan) : has_i(k)}
               \subseteq Range(objs[o]._tx_channel_names)
        /\ Balanced(objs[o]._tx_channel_names)
        /\ Range(objs[o]._dds_channel_names) = IdsWhere(txChannels, NonScan)

\* an object constructed against a tx device whose "_i" data channel and
\* whose tone generator are non-output channels: both are in its lists
C11_Witness ==
    /\ objs # <<>>
    /\ v0_i \in OnlyNonOutputTx \cap Range(objs[1]._tx_channel_names)
    /\ alt1 \in OnlyNonOutputTx \cap Range(objs[1]._dds_channel_names)
    /\ \E i \in 1..Len(rxChannels) : rxChannels[i].output /\ rxChannels[i].scan_element


(***************************************************************************)
(* Claims about a coarse group without an "_i" identifier                  *)
(***************************************************************************)
CoarseOfLabel(ch) == LET t == split(ch.label) IN <<t[3], t[2]>>

\* every label names a triple, and some labelled channel's (converter,
\* coarse) group holds no "_i" identifier in any of its fine buckets
EmptyGroup ==
    /\ \A i \in Labelled : WellFormed(rxChannels[i])
    /\ \E i \in Labelled :
          \A j \in Labelled :
              CoarseOfLabel(rxChannels[j]) = CoarseOfLabel(rxChannels[i])
                  => ~has_i(rxChannels[j].id)

HowMany(chs, T(_), suf) ==
    Cardinality({i \in 1..Len(chs) : T(chs[i]) /\ chs[i].id.suf = suf})

\* no "_i" data channel lacks a "_q" to be paired with, and every "_i" or
\* "_q" data name is "voltage" followed by digits
DataSortable(chs, T(_)) ==
    /\ HowMany(chs, T, "_i") <= HowMany(chs, T, "_q")
    /\ \A i \in 1..Len(chs) :
          (T(chs[i]) /\ chs[i].id.suf # "")
              => (chs[i].id.pre = "voltage" /\ chs[i].id.num # <<>>)

\* every DDS name is "altvoltage" followed by digits
DdsSortable(chs) ==
    \A i \in 1..Len(chs) :
        NonScan(chs[i])
            => (chs[i].id.pre = "altvoltage" /\ chs[i].id.suf = ""
                /\ chs[i].id.num # <<>>)

\* the three sorts that precede the derivation of the coarse and fine lists
\* do not raise
SortsPass ==
    /\ DataSortable(rxChannels, ScanInput)
    /\ DataSortable(txChannels, Scan)
    /\ DdsSortable(txChannels)

\* C12 as stated: whenever the path map has a coarse group without an "_i"
\* identifier, a constructor call ends in the index error of the
\* representative selection and no object exists.
C12_EmptyGroupRaisesAtSelection ==
    (ret.op = "__init__" /\ EmptyGroup)
        => (ret.err = "IndexError_channels0" /\ objs = <<>>)

\* C12: whenever the path map has a coarse group without an "_i"
\* identifier, a constructor call raises and no object exists, wherever the
\* group stands among the groups; the error is the index error of the
\* representative selection if the three list sorts pass, and otherwise the
\* error of the first sort that fails.
C12_EmptyGroupFailsConstruction ==
    (ret.op = "__init__" /\ EmptyGroup)
        => /\ objs = <<>>
           /\ SortsPass => ret.err = "IndexError_channels0"
           /\ ~SortsPass => ret.err \in {"IndexError_sort", "ValueError_int"}

\* the constructor raised at the representative selection of a group that
\* follows a group it had already appended to the transmit coarse list
C12_Witness ==
    /\ ret.op = "__init__"
    /\ ret.err = "IndexError_channels0"
    /\ EmptyGroup
    /\ cls._tx_coarse_duc_channel_names # <<>>
    /\ objs = <<>>


(***************************************************************************)
(* Claims about objects constructed one after another                      *)
(***************************************************************************)
\* what the first construction in a process yields for the enumerations
FirstConstruction == __init__(EmptyCls, rxChannels, txChannels)

\* C13 as stated: however many objects were constructed before it, every
\* object's receive data, transmit data, DDS and transmit coarse and fine
\* lists equal the lists of a single first construction against the same
\* device.
C13_ListsIndependentOfEarlierObjects ==
    \A i \in 1..Len(objs) :
        /\ objs[i]._rx_channel_names = FirstConstruction.obj._rx_channel_names
        /\ objs[i]._tx_channel_names = FirstConstruction.obj._tx_channel_names
        /\ objs[i]._dds_channel_names = FirstConstruction.obj._dds_channel_names
        /\ names_of(objs[i], cls, "tx_coarse")
               = FirstConstruction.cls._tx_coarse_duc_channel_names
        /\ names_of(objs[i], cls, "tx_fine")
               = FirstConstruction.cls._tx_fine_duc_channel_names

====
